---- MODULE Spec2Model ----
(***************************************************************************)
(* Model of src/structures/tss.rs: the #[repr(C, packed)] layout of        *)
(* TaskStateSegment<N>, its constructor new() / Default::default(), the    *)
(* caller's writes to its public fields, the derived Copy, and             *)
(* ready_to_activate(), which turns the &'static mut reference into a      *)
(* ReadyTssPointer and a &'static mut [u8; N] view of the iomap.           *)
(* Descriptors live in a flat byte memory so that layout, aliasing and     *)
(* frame properties are facts about bytes.                                 *)
(***************************************************************************)
EXTENDS Integers, Sequences, FiniteSets, Bags

\* ------------------------------------------------------------- bounds
\* Largest I/O bitmap length N the model instantiates TaskStateSegment<N> with.
MaxN == 2
\* Number of 'static storage places that can hold a TaskStateSegment<N>.
NSlots == 1
\* Number of caller writes (public fields or bitmap view) in one behaviour.
MaxWrites == 2

\* ------------------------------------------------------------- integer types
U8Max == 255

AsU16(x) == x % 65536

\* Byte b (0 = least significant) of the little-endian encoding of v.
RECURSIVE LEByte(_, _)
LEByte(v, b) == IF b = 0 THEN v % 256 ELSE LEByte(v \div 256, b - 1)

\* The little-endian encoding of v in size bytes.
ToLE(v, size) == [k \in 1..size |-> LEByte(v, k - 1)]

\* ------------------------------------------------------------- layout
\* The declared fields, in declaration order: element size, natural
\* alignment of the element type, and element count.
Fields(n) ==
    << [name |-> "reserved_1",            size |-> 4, align |-> 4, count |-> 1],
       [name |-> "privilege_stack_table", size |-> 8, align |-> 8, count |-> 3],
       [name |-> "reserved_2",            size |-> 8, align |-> 8, count |-> 1],
       [name |-> "interrupt_stack_table", size |-> 8, align |-> 8, count |-> 7],
       [name |-> "reserved_3",            size |-> 8, align |-> 8, count |-> 1],
       [name |-> "reserved_4",            size |-> 2, align |-> 2, count |-> 1],
       [name |-> "iomap_base",            size |-> 2, align |-> 2, count |-> 1],
       [name |-> "iomap",                 size |-> 1, align |-> 1, count |-> n],
       [name |-> "iomap_last_byte",       size |-> 1, align |-> 1, count |-> 1] >>

NFields == Len(Fields(0))

\* The fields of TaskStateSegment<n> for every instantiated n.
FieldsTable == [n \in 0..MaxN |-> Fields(n)]

FieldNames == {Fields(0)[i].name : i \in 1..NFields}

\* The position of each field in the declaration.
FieldIndexTable ==
    [name \in FieldNames |-> CHOOSE i \in 1..NFields : Fields(0)[i].name = name]

FieldIndex(name) == FieldIndexTable[name]

\* The declaration of field name of TaskStateSegment<n>.
Field(n, name) == FieldsTable[n][FieldIndexTable[name]]

\* Alignment a field is placed at had the struct been plain #[repr(C)].
FieldAlign_ReprC(f) == f.align

\* #[repr(C, packed)]: every field is placed at alignment 1.
FieldAlign(f) == 1

AlignUp(x, a) == ((x + a - 1) \div a) * a

RECURSIVE OffsetAt(_, _)
\* repr(C): a field starts at the end of the previous one, rounded up to
\* the field's alignment.
OffsetAt(n, i) ==
    LET prevEnd == IF i = 1 THEN 0
                   ELSE OffsetAt(n, i - 1)
                        + Fields(n)[i - 1].size * Fields(n)[i - 1].count
    IN  AlignUp(prevEnd, FieldAlign(Fields(n)[i]))

FieldBytes(n, i) == FieldsTable[n][i].size * FieldsTable[n][i].count

RECURSIVE MaxAlign(_, _)
MaxAlign(n, i) ==
    IF i = 0 THEN 1
    ELSE LET a == FieldAlign(Fields(n)[i])
             m == MaxAlign(n, i - 1)
         IN  IF a > m THEN a ELSE m

\* The layout of TaskStateSegment<n> for every instantiated n: the offset of
\* each field and the size of the whole.
LayoutTable ==
    [n \in 0..MaxN |->
        [offset |-> [i \in 1..NFields |-> OffsetAt(n, i)],
         size   |-> AlignUp(OffsetAt(n, NFields) + FieldBytes(n, NFields),
                            MaxAlign(n, NFields))]]

\* offset_of!(TaskStateSegment<n>, name)
OffsetOf(n, name) == LayoutTable[n].offset[FieldIndex(name)]

\* size_of::<TaskStateSegment<n>>()
SizeOf(n) == LayoutTable[n].size

\* ------------------------------------------------------------- values
\* ReadyTssPointer with #[derive(Debug, Clone, Copy)].
Derives_HandleCopy(type) ==
    IF type \in {"TaskStateSegment", "ReadyTssPointer"}
    THEN {"Debug", "Clone", "Copy"}
    ELSE {}

\* The derive attributes of the two types.
Derives(type) ==
    IF type = "TaskStateSegment" THEN {"Debug", "Clone", "Copy"}
    ELSE IF type = "ReadyTssPointer" THEN {"Debug"}
    ELSE {}

\* VirtAddr::zero()
VirtAddrZero == 0

\* What the upstream constructor without an iomap field stores.
IomapBase_SizeOf(n) == AsU16(SizeOf(n))

\* offset_of!(Self, iomap) as u16
IomapBase(n) == AsU16(OffsetOf(n, "iomap"))

\* A constructor that grants every port.
NewValue_AllowAll(n) ==
    [ reserved_1            |-> <<0>>,
      privilege_stack_table |-> [i \in 1..3 |-> VirtAddrZero],
      reserved_2            |-> <<0>>,
      interrupt_stack_table |-> [i \in 1..7 |-> VirtAddrZero],
      reserved_3            |-> <<0>>,
      reserved_4            |-> <<0>>,
      iomap_base            |-> <<IomapBase(n)>>,
      iomap                 |-> [i \in 1..n |-> 0],
      iomap_last_byte       |-> <<U8Max>> ]

\* A constructor that leaves one privilege stack pointer nonzero.
NewValue_DirtyStacks(n) ==
    [ reserved_1            |-> <<0>>,
      privilege_stack_table |-> [i \in 1..3 |-> IF i = 3 THEN 1 ELSE VirtAddrZero],
      reserved_2            |-> <<0>>,
      interrupt_stack_table |-> [i \in 1..7 |-> VirtAddrZero],
      reserved_3            |-> <<0>>,
      reserved_4            |-> <<0>>,
      iomap_base            |-> <<IomapBase(n)>>,
      iomap                 |-> [i \in 1..n |-> U8Max],
      iomap_last_byte       |-> <<U8Max>> ]

\* TaskStateSegment::new(): the value, field by field (each field a sequence
\* of its elements).
NewValue(n) ==
    [ reserved_1            |-> <<0>>,
      privilege_stack_table |-> [i \in 1..3 |-> VirtAddrZero],
      reserved_2            |-> <<0>>,
      interrupt_stack_table |-> [i \in 1..7 |-> VirtAddrZero],
      reserved_3            |-> <<0>>,
      reserved_4            |-> <<0>>,
      iomap_base            |-> <<IomapBase(n)>>,
      iomap                 |-> [i \in 1..n |-> U8Max],
      iomap_last_byte       |-> <<U8Max>> ]

\* <TaskStateSegment<N> as Default>::default()
DefaultValue(n) == NewValue(n)

\* A byte no store has initialised (vacant storage, padding).
Uninit == -1

\* The byte at offset off of the in-memory image of value val.
ByteOf(val, n, off) ==
    LET at == LayoutTable[n].offset
        hit == {i \in 1..NFields : at[i] <= off /\ off < at[i] + FieldBytes(n, i)}
    IN  IF hit = {} THEN Uninit
        ELSE LET i == CHOOSE j \in hit : TRUE
                 f == FieldsTable[n][i]
                 rel == off - at[i]
             IN  LEByte(val[f.name][(rel \div f.size) + 1], rel % f.size)

\* The in-memory image of val: size_of::<TaskStateSegment<n>>() bytes.
Image(val, n) == [off \in 0..(SizeOf(n) - 1) |-> ByteOf(val, n, off)]

\* ------------------------------------------------------------- state
VARIABLES
    N,        \* the const generic N of TaskStateSegment<N>
    mem,      \* byte memory: per 'static place, the bytes at its offsets
    state,    \* per place: "vacant", "unclaimed" (the caller holds the
              \* &'static mut TaskStateSegment<N>), "claimed"
    last,     \* the last operation and the place it was applied to
    handles,  \* bag of ReadyTssPointer values (the wrapped address)
    views,    \* bag of &'static mut [u8; N] values: [ptr, len]
    writes    \* number of caller writes so far

vars == <<N, mem, state, last, handles, views, writes>>

Slots == 1..NSlots

\* The places are laid out back to back, as elements of a static array:
\* the address of place d.
Base(d) == (d - 1) * SizeOf(N)

MemSize == NSlots * SizeOf(N)

Addrs == 0..(MemSize - 1)

\* The place an address falls into.
SlotOfAddr(a) ==
    LET d == (a \div SizeOf(N)) + 1
    IN  IF d > NSlots THEN NSlots ELSE d

\* The byte at address a.
Mem(a) == mem[SlotOfAddr(a)][a - Base(SlotOfAddr(a))]

RECURSIVE StoreBytes(_, _, _, _)
\* Store the bytes bytes[k..] at address a and the addresses after it.
StoreBytes(m, a, bytes, k) ==
    IF k > Len(bytes) THEN m
    ELSE StoreBytes(IF a \in Addrs
                    THEN [m EXCEPT ![SlotOfAddr(a)][a - Base(SlotOfAddr(a))] = bytes[k]]
                    ELSE m,
                    a + 1, bytes, k + 1)

\* The bytes of element i (0-based) of field name of the descriptor at d.
Load(d, name, i) ==
    LET f == Field(N, name)
    IN  [k \in 1..f.size |-> mem[d][OffsetOf(N, name) + i * f.size + (k - 1)]]

\* Values the caller writes.
VirtAddrInputs == {0, 16909060}

\* Indices the caller uses on an array of count elements: the first, the
\* last, and the first one out of bounds.
IndexInputs(count) == {0, count - 1, count} \cap Nat

ByteInputs == {0, 254}

TypeOK ==
    /\ N \in 0..MaxN
    /\ mem \in [Slots -> [0..(SizeOf(N) - 1) -> (0..255) \cup {Uninit}]]
    /\ state \in [Slots -> {"vacant", "unclaimed", "claimed"}]
    /\ last.d \in 0..NSlots
    /\ writes \in 0..MaxWrites

Init ==
    /\ N \in 0..MaxN
    /\ mem = [d \in Slots |-> [off \in 0..(SizeOf(N) - 1) |-> Uninit]]
    /\ state = [d \in Slots |-> "vacant"]
    /\ last = [op |-> "init", d |-> 0]
    /\ handles = EmptyBag
    /\ views = EmptyBag
    /\ writes = 0

\* ------------------------------------------------------------- operations
\* The images of the constructed values, for every instantiated n.
NewImage == [n \in 0..MaxN |-> Image(NewValue(n), n)]

DefaultImage == [n \in 0..MaxN |-> Image(DefaultValue(n), n)]

\* Store a constructed value in place d: static initialisation, or an
\* assignment through the &'static mut the caller still holds.
Construct(d, img, how) ==
    /\ state[d] \in {"vacant", "unclaimed"}
    /\ mem' = [mem EXCEPT ![d] = img]
    /\ state' = [state EXCEPT ![d] = "unclaimed"]
    /\ last' = [op |-> how, d |-> d]
    /\ UNCHANGED <<N, handles, views, writes>>

New(d) == Construct(d, NewImage[N], "new")

Default(d) == Construct(d, DefaultImage[N], "default")

\* tss.<field>[i] = v with the index unchecked (get_unchecked_mut).
WriteField_Unchecked(d, name, i, v) ==
    LET f == Field(N, name)
    IN  /\ state[d] = "unclaimed"
        /\ writes < MaxWrites
        /\ mem' = StoreBytes(mem, Base(d) + OffsetOf(N, name) + i * f.size,
                             ToLE(v, f.size), 1)
        /\ state' = state
        /\ last' = [op |-> "write_field", d |-> d]
        /\ writes' = writes + 1
        /\ UNCHANGED <<N, handles, views>>

\* tss.<field>[i] = v on a public field, through the &'static mut.
\* Array indexing is bounds-checked.
WriteField(d, name, i, v) ==
    LET f == Field(N, name)
    IN  /\ state[d] = "unclaimed"
        /\ writes < MaxWrites
        /\ i < f.count
        /\ mem' = StoreBytes(mem, Base(d) + OffsetOf(N, name) + i * f.size,
                             ToLE(v, f.size), 1)
        /\ state' = state
        /\ last' = [op |-> "write_field", d |-> d]
        /\ writes' = writes + 1
        /\ UNCHANGED <<N, handles, views>>

WritePrivilegeStack(d, i, v) == WriteField(d, "privilege_stack_table", i, v)

WriteInterruptStack(d, i, v) == WriteField(d, "interrupt_stack_table", i, v)

WriteIomap(d, i, b) == WriteField(d, "iomap", i, b)

\* *dst = *src, both through a &'static mut TaskStateSegment<N>: a bytewise
\* copy (the right-hand side is read first, so dst may be src's own place).
CopyTss(src, dst) ==
    /\ state[src] = "unclaimed"
    /\ state[dst] = "unclaimed"
    /\ mem' = [mem EXCEPT ![dst] = mem[src]]
    /\ last' = [op |-> "copy", d |-> dst]
    /\ UNCHANGED <<N, state, handles, views, writes>>

\* let h2 = h; with h still usable afterwards: a second handle value.
CopyHandle(h) ==
    /\ handles' = handles (+) SetToBag({h})
    /\ last' = [op |-> "copy", d |-> SlotOfAddr(h.ptr)]
    /\ UNCHANGED <<N, mem, state, views, writes>>

\* A bitwise copy that leaves the original usable exists for the types that
\* derive Copy.
CopyValue(type) ==
    /\ "Copy" \in Derives(type)
    /\ IF type = "TaskStateSegment"
       THEN \E src \in Slots, dst \in Slots : CopyTss(src, dst)
       ELSE \E h \in BagToSet(handles) : CopyHandle(h)

\* ReadyTssPointer(self)
HandleOf(d) == [ptr |-> Base(d)]

\* A view that starts at the iomap_base field.
ViewOf_WrongField(d) == [ptr |-> Base(d) + OffsetOf(N, "iomap_base"), len |-> N]

\* &mut *(&raw mut self.iomap): a &'static mut [u8; N]
ViewOf(d) == [ptr |-> Base(d) + OffsetOf(N, "iomap"), len |-> N]

\* ready_to_activate taking a reborrowable &mut self: the caller keeps the
\* reference.
ReadyToActivate_Reborrow(d) ==
    /\ state[d] = "unclaimed"
    /\ handles' = handles (+) SetToBag({HandleOf(d)})
    /\ views' = views (+) SetToBag({ViewOf(d)})
    /\ last' = [op |-> "ready_to_activate", d |-> d]
    /\ UNCHANGED <<N, mem, state, writes>>

\* ready_to_activate(&'static mut self): the reference is moved in, and the
\* caller is left with the handle and the view.
ReadyToActivate(d) ==
    /\ state[d] = "unclaimed"
    /\ state' = [state EXCEPT ![d] = "claimed"]
    /\ handles' = handles (+) SetToBag({HandleOf(d)})
    /\ views' = views (+) SetToBag({ViewOf(d)})
    /\ last' = [op |-> "ready_to_activate", d |-> d]
    /\ UNCHANGED <<N, mem, writes>>

\* view[i] = b with the bound checked one too far.
WriteView_OffByOne(v, i, b) ==
    /\ writes < MaxWrites
    /\ i <= v.len
    /\ mem' = StoreBytes(mem, v.ptr + i, <<b>>, 1)
    /\ last' = [op |-> "write_view", d |-> SlotOfAddr(v.ptr)]
    /\ writes' = writes + 1
    /\ UNCHANGED <<N, state, handles, views>>

\* view[i] = b through the &'static mut [u8; N]; indexing is bounds-checked.
WriteView(v, i, b) ==
    /\ writes < MaxWrites
    /\ i < v.len
    /\ mem' = StoreBytes(mem, v.ptr + i, <<b>>, 1)
    /\ last' = [op |-> "write_view", d |-> SlotOfAddr(v.ptr)]
    /\ writes' = writes + 1
    /\ UNCHANGED <<N, state, handles, views>>

Types == {"TaskStateSegment", "ReadyTssPointer"}

Next ==
    \/ \E d \in Slots : New(d)
    \/ \E d \in Slots : Default(d)
    \/ \E d \in Slots, i \in IndexInputs(3), v \in VirtAddrInputs : WritePrivilegeStack(d, i, v)
    \/ \E d \in Slots, i \in IndexInputs(7), v \in VirtAddrInputs : WriteInterruptStack(d, i, v)
    \/ \E d \in Slots, i \in 0..MaxN, b \in ByteInputs : WriteIomap(d, i, b)
    \/ \E type \in Types : CopyValue(type)
    \/ \E d \in Slots : ReadyToActivate(d)
    \/ \E v \in BagToSet(views), i \in 0..MaxN, b \in ByteInputs : WriteView(v, i, b)

Spec == Init /\ [][Next]_vars

\* ------------------------------------------------------------- properties
\* Element i (0-based) of field name of the descriptor at d holds value v.
FieldIs(d, name, i, v) ==
    Load(d, name, i) = ToLE(v, Field(N, name).size)

\* Every element of field name of the descriptor at d holds value v.
FieldAll(d, name, v) ==
    \A i \in 0..(Field(N, name).count - 1) : FieldIs(d, name, i, v)

RECURSIVE BytesBefore(_, _)
\* The declared sizes of the fields before field i, added up.
BytesBefore(n, i) ==
    IF i = 1 THEN 0 ELSE BytesBefore(n, i - 1) + FieldBytes(n, i - 1)

\* The addresses of the place d.
PlaceAddrs(d) == Base(d)..(Base(d) + SizeOf(N) - 1)

\* The addresses of the iomap field of the descriptor at d.
IomapAddrs(d) ==
    (Base(d) + OffsetOf(N, "iomap"))..(Base(d) + OffsetOf(N, "iomap") + N - 1)

\* The views whose first byte lies in place d.
ViewsInto(d) == {v \in BagToSet(views) : SlotOfAddr(v.ptr) = d}

Constructed == last.op \in {"new", "default"}

\* C1: for every N (N = 0 included) size_of::<TaskStateSegment<N>>() is
\* 0x68 + N + 1 (0x69 for N = 0), every field starts where the previous one
\* ends, and every byte of a stored descriptor is a byte of a declared field.
C1_SizeIsBasePlusBitmapPlusSentinel ==
    \A d \in Slots :
        state[d] # "vacant" =>
            /\ SizeOf(N) = 104 + N + 1
            /\ N = 0 => SizeOf(N) = 105
            /\ \A i \in 1..NFields : LayoutTable[N].offset[i] = BytesBefore(N, i)
            /\ SizeOf(N) = BytesBefore(N, NFields) + FieldBytes(N, NFields)
            /\ Cardinality({off \in DOMAIN mem[d] : mem[d][off] # Uninit}) = 104 + N + 1

C1_Witness ==
    /\ N = 0
    /\ state[1] # "vacant"
    /\ Cardinality({a \in Addrs : Mem(a) # Uninit}) = 105

C3_IomapBaseIsSizeOf ==
    last.op = "new" => FieldIs(last.d, "iomap_base", 0, AsU16(SizeOf(N)))

\* C4: for a claimed descriptor there is a handle wrapping the descriptor's
\* own address and a view of exactly N bytes, and after any writes byte i of
\* the view is byte i of the descriptor's iomap, for every i < N.
C4_ViewAliasesIomap ==
    \A d \in Slots :
        state[d] = "claimed" =>
            /\ \E h \in BagToSet(handles) : h.ptr = Base(d)
            /\ ViewsInto(d) # {}
            /\ \A v \in ViewsInto(d) :
                /\ v.len = N
                /\ \A i \in 0..(N - 1) : <<Mem(v.ptr + i)>> = Load(d, "iomap", i)

C4_Witness ==
    /\ last.op = "write_view"
    /\ state[last.d] = "claimed"
    /\ \E i \in 0..(N - 1) : FieldIs(last.d, "iomap", i, 254)

\* C5: per descriptor the lifecycle unclaimed -> claimed is one-way: at most
\* one handle and at most one view ever exist for it, a handle or view exists
\* only once it is claimed, ready_to_activate cannot be applied to a claimed
\* descriptor, and a claimed descriptor stays claimed.
C5_AtMostOneClaim ==
    \A d \in Slots :
        /\ CopiesIn(HandleOf(d), handles) <= 1
        /\ \A v \in ViewsInto(d) : CopiesIn(v, views) <= 1
        /\ Cardinality(ViewsInto(d)) <= 1
        /\ state[d] # "claimed" => CopiesIn(HandleOf(d), handles) = 0 /\ ViewsInto(d) = {}
        /\ state[d] = "claimed" => ~ENABLED ReadyToActivate(d)

C5_ClaimedStaysClaimed ==
    \A d \in Slots : state[d] = "claimed" => state'[d] = "claimed"

\* C5: the state part holds in every reachable state and no step takes a
\* claimed descriptor out of claimed.
C5_OneWayLifecycle == []C5_AtMostOneClaim /\ [][C5_ClaimedStaysClaimed]_vars

C5_Witness ==
    /\ last.op = "write_view"
    /\ state[last.d] = "claimed"
    /\ CopiesIn(HandleOf(last.d), handles) = 1
    /\ Cardinality(ViewsInto(last.d)) = 1

\* C6: once a descriptor is claimed, a step changes no byte of it outside
\* the N iomap bytes, any change of its bytes is a write through the view,
\* and no step changes the handles or the views.
C6_ClaimedFrame ==
    \A d \in Slots :
        state[d] = "claimed" =>
            /\ \/ mem'[d] = mem[d]
               \/ /\ \A a \in PlaceAddrs(d) \ IomapAddrs(d) : Mem(a)' = Mem(a)
                  /\ last'.op = "write_view"
            /\ CopiesIn(HandleOf(d), handles') = CopiesIn(HandleOf(d), handles)

\* C6: every step keeps the frame of every claimed descriptor.
C6_OnlyIomapMutable == [][C6_ClaimedFrame]_vars

C6_Witness ==
    /\ last.op = "write_view"
    /\ state[last.d] = "claimed"
    /\ FieldIs(last.d, "privilege_stack_table", 0, 16909060)
    /\ \E i \in 0..(N - 1) : ~FieldIs(last.d, "iomap", i, U8Max)

C8_FreshDeniesAllPorts ==
    Constructed =>
        /\ FieldAll(last.d, "iomap", 255)
        /\ FieldIs(last.d, "iomap_last_byte", 0, 255)
        /\ mem[last.d] = NewImage[N]

C8_Witness ==
    /\ last.op = "default"
    /\ N = MaxN
    /\ Mem(Base(last.d) + 104) = 255

\* C9: a descriptor returned by new() has its three privilege_stack_table
\* and seven interrupt_stack_table entries zero and its reserved fields zero.
C9_FreshStacksZero ==
    last.op = "new" =>
        /\ FieldAll(last.d, "privilege_stack_table", 0)
        /\ FieldAll(last.d, "interrupt_stack_table", 0)
        /\ FieldIs(last.d, "reserved_1", 0, 0)
        /\ FieldIs(last.d, "reserved_2", 0, 0)
        /\ FieldIs(last.d, "reserved_3", 0, 0)
        /\ FieldIs(last.d, "reserved_4", 0, 0)

C9_Witness ==
    /\ last.op = "new"
    /\ writes > 0
    /\ FieldAll(last.d, "interrupt_stack_table", 0)

\* C10 as stated: a holder of a handle can duplicate it, so that two handle
\* values wrapping one descriptor address exist after a single claim.
C10_HandleCopyable ==
    BagToSet(handles) # {} => ENABLED CopyValue("ReadyTssPointer")

\* C10 as amended: ReadyTssPointer derives only Debug, so no step duplicates
\* a handle, and each handle value exists exactly once.
C10_HandleNotCopyable ==
    \A h \in BagToSet(handles) :
        /\ ~ENABLED CopyValue("ReadyTssPointer")
        /\ CopiesIn(h, handles) = 1

C10_Witness ==
    /\ last.op = "ready_to_activate"
    /\ BagToSet(handles) = {HandleOf(last.d)}

====
